---- MODULE Spec2Model ----
(***************************************************************************)
(* Model of the GitHub webhook receiver of invenio-github                  *)
(* (src/invenio_github/receivers.py): GitHubReceiver.run,                   *)
(* _handle_event, _handle_create_release and its inner _create_release.     *)
(*                                                                         *)
(* Every invocation of run() is a thread of one worker process.  Each       *)
(* process owns its module-level dict `state`; all processes share the      *)
(* database (table of Release rows, table of Repository rows) and the task  *)
(* queue.  One action is one step of run() between two points where         *)
(* another thread or process may interleave.                               *)
(*                                                                         *)
(* Python None is written as 0 for ids and codes and as "" for messages.   *)
(***************************************************************************)
EXTENDS Integers, Sequences, FiniteSets, TLC

\* ---- bounds -------------------------------------------------------------
MaxInv == 2          \* number of run() invocations (deliveries)
NumProcs == 2        \* number of worker processes
MaxReleaseId == 2    \* external release ids 1..MaxReleaseId

Inv == 1..MaxInv
Procs == 1..NumProcs
ReleaseIds == 1..MaxReleaseId

\* ---- payloads -----------------------------------------------------------
\* A release belongs to one repository and has one tag: the payload of a
\* release event carries them.  All releases of the model are releases of
\* the repository with id 7 and name "lib".
RepoOf(r) == [id |-> 7, name |-> "lib"]
TagOf(r) == IF r = 1 THEN "v1.0" ELSE "v1.1"
Repos == {RepoOf(r) : r \in ReleaseIds}

Actions == {"published", "released", "created", "deleted"}

Payload(a, r, d) ==
  [action |-> a,
   release |-> [id |-> r, tag_name |-> TagOf(r), draft |-> d],
   repository |-> RepoOf(r)]

\* Every action, draft or not.
AllPayloads == {Payload(a, r, d) : a \in Actions, r \in ReleaseIds, d \in BOOLEAN}

\* The ordinary traffic: "published" events, draft or not.
Payloads == {Payload("published", r, d) : r \in ReleaseIds, d \in BOOLEAN}

NoPayload ==
  [action |-> "", release |-> [id |-> 0, tag_name |-> "", draft |-> FALSE],
   repository |-> [id |-> 0, name |-> ""]]

\* ---- the response slot of an event --------------------------------------
\* event.response_code and event.response = {"status": .., "message": ..}
Unset == [response_code |-> 0, status |-> 0, message |-> ""]
Response(code, msg) == [response_code |-> code, status |-> code, message |-> msg]

\* What the response slot may hold when run() is entered: nothing, the
\* transport's acceptance, or the error of an earlier processing of the
\* same event.  Only run()'s handler reads the slot before writing it, so
\* the slot holds AsDelivered until then and its content is drawn from
\* DeliveredResponses at that read.
DeliveredResponses ==
  {Unset, Response(202, "Accepted."), Response(409, "ReleaseAlreadyReceivedError")}

AsDelivered == [response_code |-> -1, status |-> -1, message |-> "as delivered"]

\* ---- errors -------------------------------------------------------------
\* The `except` clauses of _handle_create_release: the code written onto
\* the event, 0 when no clause matches and the error leaves the method.
\* (variant: the commit error is not among the caught errors)
ExceptCodeNoCommitError(err) ==
  IF err \in {"ReleaseAlreadyReceivedError", "RepositoryDisabledError"}
  THEN 409
  ELSE IF err \in {"RepositoryAccessError", "InvalidSenderError"}
  THEN 403
  ELSE IF err = "RepositoryNotFoundError"
  THEN 404
  ELSE 0

\* (variant: a disabled repository is an access error)
ExceptCodeDisabledIsAccess(err) ==
  IF err \in {"ReleaseAlreadyReceivedError", "SQLAlchemyError"}
  THEN 409
  ELSE IF err \in {"RepositoryDisabledError", "RepositoryAccessError", "InvalidSenderError"}
  THEN 403
  ELSE IF err = "RepositoryNotFoundError"
  THEN 404
  ELSE 0

\* (variant: no except clause for RepositoryNotFoundError)
ExceptCodeNoNotFound(err) ==
  IF err \in {"ReleaseAlreadyReceivedError", "RepositoryDisabledError", "SQLAlchemyError"}
  THEN 409
  ELSE IF err \in {"RepositoryAccessError", "InvalidSenderError"}
  THEN 403
  ELSE 0

ExceptCode(err) ==
  IF err \in {"ReleaseAlreadyReceivedError", "RepositoryDisabledError", "SQLAlchemyError"}
  THEN 409
  ELSE IF err \in {"RepositoryAccessError", "InvalidSenderError"}
  THEN 403
  ELSE IF err = "RepositoryNotFoundError"
  THEN 404
  ELSE 0

\* run(): `except Exception` catches every error of the model.
RunCatches(err) == TRUE

\* (variant: only an unset response is replaced)
RunResponseUnsetOnly(r, err) ==
  IF r = Unset
  THEN Response(500, err)
  ELSE r

\* (variant: the response is replaced whatever it holds)
RunResponseAlways(r, err) == Response(500, err)

\* run(): the response after an error reached run()'s handler.
RunResponse(r, err) ==
  IF r = Unset \/ r.response_code < 400
  THEN Response(500, err)
  ELSE r

\* Errors the synchronous Downstream Processor may raise.
ProcessorErrors ==
  {"SQLAlchemyError", "RepositoryAccessError", "InvalidSenderError", "RuntimeError"}

\* ---- classification -----------------------------------------------------
\* (variant: the draft flag is not looked at)
IsCreateReleaseEventAnyDraft(payload) ==
  payload.action \in {"published", "released", "created"}

IsCreateReleaseEvent(payload) ==
  payload.action \in {"published", "released", "created"} /\ ~payload.release.draft

\* ---- the Release row ----------------------------------------------------
NoRelease == [release_id |-> 0, tag |-> "", repository |-> 0, event |-> 0, status |-> ""]

\* (variant: the tag is taken from the repository name)
NewReleaseTagFromName(i, payload) ==
  [release_id |-> payload.release.id,
   tag |-> payload.repository.name,
   repository |-> payload.repository.id,
   event |-> i,
   status |-> "RECEIVED"]

NewRelease(i, payload) ==
  [release_id |-> payload.release.id,
   tag |-> payload.release.tag_name,
   repository |-> payload.repository.id,
   event |-> i,
   status |-> "RECEIVED"]

\* (variant: the lookup finds nothing)
ExistingReleaseNever(rows, release_id) == FALSE

\* Release.query.filter_by(release_id=..).first() is not None
ExistingRelease(rows, release_id) == \E rec \in rows : rec.release_id = release_id

\* (variant: no unique constraint)
UniqueViolationNever(rows, rec) == FALSE

\* The unique constraint on Release.release_id, enforced at commit.
UniqueViolation(rows, rec) == \E old \in rows : old.release_id = rec.release_id

VARIABLES
  asyncMode,   \* current_app.config["GITHUB_ASYNC_MODE"]
  registry,    \* Repository table: repo id -> "absent" | "disabled" | "enabled"
  store,       \* committed Release rows
  queue,       \* release ids handed to process_release.delay
  processed,   \* release ids handed to release_api.process_release (in-line)
  state,       \* per process: the module-level dict, release id -> event (0: no key)
  pc,          \* per invocation: position in run()
  proc,        \* per invocation: its process
  event,       \* per invocation: event.payload
  resp,        \* per invocation: event.response_code / event.response
  staged,      \* per invocation: the row added to db.session, not committed
  resp0,       \* history: the delivered response slot as run()'s handler read it
  writes,      \* history: number of writes of the response slot by run()
  sent,        \* history: number of dispatches made by the invocation
  outcome,     \* history: how the invocation ended
  raised,      \* history: the error that ended the invocation ("": none)
  prior        \* history: a Release row with the event's id was committed at delivery

vars == <<asyncMode, registry, store, queue, processed, state, pc, proc, event,
          resp, staged, resp0, writes, sent, outcome, raised, prior>>

Init ==
  /\ asyncMode \in BOOLEAN
  /\ registry \in [{rp.id : rp \in Repos} -> {"absent", "disabled", "enabled"}]
  /\ store = {}
  /\ queue = <<>>
  /\ processed = <<>>
  /\ state = [p \in Procs |-> [r \in ReleaseIds |-> 0]]
  /\ pc = [i \in Inv |-> "idle"]
  /\ proc = [i \in Inv |-> 1]
  /\ event = [i \in Inv |-> NoPayload]
  /\ resp = [i \in Inv |-> AsDelivered]
  /\ staged = [i \in Inv |-> NoRelease]
  /\ resp0 = [i \in Inv |-> AsDelivered]
  /\ writes = [i \in Inv |-> 0]
  /\ sent = [i \in Inv |-> 0]
  /\ outcome = [i \in Inv |-> "none"]
  /\ raised = [i \in Inv |-> ""]
  /\ prior = [i \in Inv |-> FALSE]

\* ---- leaving run() ------------------------------------------------------
\* An error `err` raised inside the try block of _handle_create_release:
\* a matching except clause writes the response; any other error reaches
\* run(), which writes 500 unless an error response is already there.
\* Nothing on this path touches `state`.
Raise(i, err, how) ==
  /\ IF ExceptCode(err) # 0
     THEN /\ resp' = [resp EXCEPT ![i] = Response(ExceptCode(err), err)]
          /\ writes' = [writes EXCEPT ![i] = @ + 1]
          /\ UNCHANGED resp0
     ELSE \E r0 \in DeliveredResponses :
          /\ resp0' = [resp0 EXCEPT ![i] = r0]
          /\ resp' = [resp EXCEPT ![i] = IF RunCatches(err) THEN RunResponse(r0, err) ELSE r0]
          /\ writes' = [writes EXCEPT ![i] = IF resp'[i] # r0 THEN @ + 1 ELSE @]
  /\ pc' = [pc EXCEPT ![i] =
                IF ExceptCode(err) # 0 \/ RunCatches(err) THEN "done" ELSE "raised"]
  /\ outcome' = [outcome EXCEPT ![i] = how]
  /\ raised' = [raised EXCEPT ![i] = err]

Return(i, how) ==
  /\ pc' = [pc EXCEPT ![i] = "done"]
  /\ outcome' = [outcome EXCEPT ![i] = how]
  /\ UNCHANGED <<resp, resp0, writes, raised>>

\* ---- actions ------------------------------------------------------------
\* The transport calls run(event) on a thread of process p.
\* Invocations are numbered in the order of their delivery.  Processes are
\* interchangeable and so are release ids: a delivery goes to a process, and
\* carries a release id, that was used before or is the lowest unused one.
Delivered == {j \in Inv : pc[j] # "idle"}
Fresh(n, used) == n = 1 \/ (n - 1) \in used

Deliver(i, p, payload) ==
  /\ pc[i] = "idle"
  /\ \A j \in Inv : j < i => j \in Delivered
  /\ Fresh(p, {proc[j] : j \in Delivered})
  /\ Fresh(payload.release.id, {event[j].release.id : j \in Delivered})
  /\ pc' = [pc EXCEPT ![i] = "run"]
  /\ proc' = [proc EXCEPT ![i] = p]
  /\ event' = [event EXCEPT ![i] = payload]
  /\ prior' = [prior EXCEPT ![i] = \E rec \in store : rec.release_id = payload.release.id]
  /\ UNCHANGED <<asyncMode, registry, store, queue, processed, state, staged,
                 resp, resp0, writes, sent, outcome, raised>>

\* _handle_event: classify, discard what is not a creation event.
HandleEvent(i) ==
  /\ pc[i] = "run"
  /\ IF IsCreateReleaseEvent(event[i])
     THEN /\ pc' = [pc EXCEPT ![i] = "check"]
          /\ UNCHANGED <<resp, resp0, writes, outcome, raised>>
     ELSE Return(i, "discarded")
  /\ UNCHANGED <<prior, asyncMode, registry, store, queue, processed, state, proc, event,
                 staged, sent>>

\* (variant: the key is deleted on the way out, whoever holds it)
CheckStateUnlocks(i) ==
  /\ pc[i] = "check"
  /\ IF state[proc[i]][event[i].release.id] # 0
     THEN /\ Raise(i, "ReleaseAlreadyReceivedError", "in_state")
          /\ state' = [state EXCEPT ![proc[i]][event[i].release.id] = 0]
     ELSE /\ pc' = [pc EXCEPT ![i] = "lock"]
          /\ UNCHANGED <<state, resp, resp0, writes, outcome, raised>>
  /\ UNCHANGED <<prior, asyncMode, registry, store, queue, processed, proc, event,
                 staged, sent>>

\* `if event_release_id in state: raise ReleaseAlreadyReceivedError()`
CheckState(i) ==
  /\ pc[i] = "check"
  /\ IF state[proc[i]][event[i].release.id] # 0
     THEN Raise(i, "ReleaseAlreadyReceivedError", "in_state")
     ELSE /\ pc' = [pc EXCEPT ![i] = "lock"]
          /\ UNCHANGED <<resp, resp0, writes, outcome, raised>>
  /\ UNCHANGED <<prior, asyncMode, registry, store, queue, processed, state, proc, event,
                 staged, sent>>

\* `state.update({event_release_id: event})`
LockState(i) ==
  /\ pc[i] = "lock"
  /\ state' = [state EXCEPT ![proc[i]][event[i].release.id] = i]
  /\ pc' = [pc EXCEPT ![i] = "query"]
  /\ UNCHANGED <<prior, raised, asyncMode, registry, store, queue, processed, proc, event, resp,
                 staged, resp0, writes, sent, outcome>>

\* (variant: the repository is looked at before the existing Release)
QueryReleaseAfterRepository(i) ==
  /\ pc[i] = "query"
  /\ IF registry[event[i].repository.id] = "absent"
     THEN Raise(i, "RepositoryNotFoundError", "repo_not_found")
     ELSE IF registry[event[i].repository.id] = "disabled"
     THEN Raise(i, "RepositoryDisabledError", "repo_disabled")
     ELSE IF ExistingRelease(store, event[i].release.id)
     THEN Raise(i, "ReleaseAlreadyReceivedError", "existing_release")
     ELSE /\ pc' = [pc EXCEPT ![i] = "repo"]
          /\ UNCHANGED <<resp, resp0, writes, outcome, raised>>
  /\ UNCHANGED <<prior, asyncMode, registry, store, queue, processed, state, proc, event,
                 staged, sent>>

\* _create_release: the lookup of an existing Release.
QueryRelease(i) ==
  /\ pc[i] = "query"
  /\ IF ExistingRelease(store, event[i].release.id)
     THEN Raise(i, "ReleaseAlreadyReceivedError", "existing_release")
     ELSE /\ pc' = [pc EXCEPT ![i] = "repo"]
          /\ UNCHANGED <<resp, resp0, writes, outcome, raised>>
  /\ UNCHANGED <<prior, asyncMode, registry, store, queue, processed, state, proc, event,
                 staged, sent>>

\* _create_release: Repository.get, the enabled test, db.session.add.
GetRepository(i) ==
  /\ pc[i] = "repo"
  /\ CASE registry[event[i].repository.id] = "absent" ->
            /\ Raise(i, "RepositoryNotFoundError", "repo_not_found")
            /\ UNCHANGED staged
       [] registry[event[i].repository.id] = "disabled" ->
            /\ Raise(i, "RepositoryDisabledError", "repo_disabled")
            /\ UNCHANGED staged
       [] OTHER ->
            /\ staged' = [staged EXCEPT ![i] = NewRelease(i, event[i])]
            /\ pc' = [pc EXCEPT ![i] = "dispatch"]
            /\ UNCHANGED <<resp, resp0, writes, outcome, raised>>
  /\ UNCHANGED <<prior, asyncMode, registry, store, queue, processed, state, proc, event, sent>>

\* (variant: the task is sent before the commit)
CommitAfterDelay(i) ==
  /\ pc[i] = "dispatch"
  /\ asyncMode
  /\ staged' = [staged EXCEPT ![i] = NoRelease]
  /\ queue' = Append(queue, event[i].release.id)
  /\ sent' = [sent EXCEPT ![i] = @ + 1]
  /\ IF UniqueViolation(store, staged[i])
     THEN /\ Raise(i, "SQLAlchemyError", "commit_conflict")
          /\ UNCHANGED store
     ELSE /\ store' = store \cup {staged[i]}
          /\ pc' = [pc EXCEPT ![i] = "unlock"]
          /\ UNCHANGED <<resp, resp0, writes, outcome, raised>>
  /\ UNCHANGED <<prior, asyncMode, registry, processed, state, proc, event>>

\* async mode: db.session.commit()
Commit(i) ==
  /\ pc[i] = "dispatch"
  /\ asyncMode
  /\ staged' = [staged EXCEPT ![i] = NoRelease]
  /\ IF UniqueViolation(store, staged[i])
     THEN /\ Raise(i, "SQLAlchemyError", "commit_conflict")
          /\ UNCHANGED store
     ELSE /\ store' = store \cup {staged[i]}
          /\ pc' = [pc EXCEPT ![i] = "delay"]
          /\ UNCHANGED <<resp, resp0, writes, outcome, raised>>
  /\ UNCHANGED <<prior, asyncMode, registry, queue, processed, state, proc, event, sent>>

\* async mode: process_release.delay(release.release_id); the broker may
\* refuse the message.
Delay(i) ==
  /\ pc[i] = "delay"
  /\ \/ /\ queue' = Append(queue, event[i].release.id)
        /\ sent' = [sent EXCEPT ![i] = @ + 1]
        /\ pc' = [pc EXCEPT ![i] = "unlock"]
        /\ UNCHANGED <<resp, resp0, writes, outcome, raised>>
     \/ /\ Raise(i, "OperationalError", "delay_failed")
        /\ UNCHANGED <<queue, sent>>
  /\ UNCHANGED <<prior, asyncMode, registry, store, processed, state, proc, event,
                 staged>>

\* sync mode: release_api.process_release() runs in-line on the staged row.
\* It returns with or without having committed the session, or raises.
ProcessRelease(i) ==
  /\ pc[i] = "dispatch"
  /\ ~asyncMode
  /\ processed' = Append(processed, event[i].release.id)
  /\ sent' = [sent EXCEPT ![i] = @ + 1]
  /\ \/ /\ pc' = [pc EXCEPT ![i] = "unlock"]
        /\ UNCHANGED <<store, staged, resp, resp0, writes, outcome, raised>>
     \/ /\ ~UniqueViolation(store, staged[i])
        /\ store' = store \cup {staged[i]}
        /\ staged' = [staged EXCEPT ![i] = NoRelease]
        /\ pc' = [pc EXCEPT ![i] = "unlock"]
        /\ UNCHANGED <<resp, resp0, writes, outcome, raised>>
     \/ /\ \E err \in ProcessorErrors : Raise(i, err, "processor_failed")
        /\ UNCHANGED <<store, staged>>
  /\ UNCHANGED <<prior, asyncMode, registry, queue, state, proc, event>>

\* `del state[event_release_id]`
UnlockState(i) ==
  /\ pc[i] = "unlock"
  /\ IF state[proc[i]][event[i].release.id] = 0
     THEN /\ Raise(i, "KeyError", "unlock_failed")
          /\ UNCHANGED state
     ELSE /\ state' = [state EXCEPT ![proc[i]][event[i].release.id] = 0]
          /\ Return(i, "admitted")
  /\ UNCHANGED <<prior, asyncMode, registry, store, queue, processed, proc, event,
                 staged, sent>>

\* The registry is owned by other parts of the application: a repository is
\* registered, enabled, disabled or removed at any time.
SetRepository(id, v) ==
  /\ registry[id] # v
  /\ registry' = [registry EXCEPT ![id] = v]
  /\ UNCHANGED <<prior, raised, asyncMode, store, queue, processed, state, pc, proc, event,
                 resp, staged, resp0, writes, sent, outcome>>

Next ==
  \/ \E i \in Inv, p \in Procs, payload \in Payloads : Deliver(i, p, payload)
  \/ \E i \in Inv : HandleEvent(i)
  \/ \E i \in Inv : CheckState(i)
  \/ \E i \in Inv : LockState(i)
  \/ \E i \in Inv : QueryRelease(i)
  \/ \E i \in Inv : GetRepository(i)
  \/ \E i \in Inv : Commit(i)
  \/ \E i \in Inv : Delay(i)
  \/ \E i \in Inv : ProcessRelease(i)
  \/ \E i \in Inv : UnlockState(i)
  \/ \E id \in {rp.id : rp \in Repos}, v \in {"absent", "disabled", "enabled"} :
       SetRepository(id, v)

Spec == Init /\ [][Next]_vars

\* The same receiver under a registry that does not change, where the last
\* delivery carries any action, draft or not.
DeliverAny(i, p, payload) ==
  /\ i = MaxInv
  /\ Deliver(i, p, payload)

NextAny ==
  \/ \E i \in Inv, p \in Procs, payload \in Payloads : Deliver(i, p, payload)
  \/ \E i \in Inv, p \in Procs, payload \in AllPayloads : DeliverAny(i, p, payload)
  \/ \E i \in Inv : HandleEvent(i)
  \/ \E i \in Inv : CheckState(i)
  \/ \E i \in Inv : LockState(i)
  \/ \E i \in Inv : QueryRelease(i)
  \/ \E i \in Inv : GetRepository(i)
  \/ \E i \in Inv : Commit(i)
  \/ \E i \in Inv : Delay(i)
  \/ \E i \in Inv : ProcessRelease(i)
  \/ \E i \in Inv : UnlockState(i)

SpecAny == Init /\ [][NextAny]_vars

TypeOK ==
  /\ asyncMode \in BOOLEAN
  /\ \A i \in Inv : pc[i] \in {"idle", "run", "check", "lock", "query", "repo",
                               "dispatch", "delay", "unlock", "done", "raised"}
  /\ \A i \in Inv : proc[i] \in Procs
  /\ \A p \in Procs, r \in ReleaseIds : state[p][r] \in Inv \cup {0}

\* ---- properties ---------------------------------------------------------
Ended(i) == pc[i] \in {"done", "raised"}
ReleasesOf(r) == {rec \in store : rec.release_id = r}
Committed(i) == \E rec \in store : rec.event = i
DeliveriesOf(r) == {i \in Delivered : event[i].release.id = r}
Code(i) == resp[i].response_code
Count(seq, r) == Cardinality({k \in 1..Len(seq) : seq[k] = r})
CreationEvent(i) ==
  event[i].action \in {"published", "released", "created"} /\ event[i].release.draft = FALSE

\* C1: in every reachable state the store holds at most one committed
\* Release row per release id.
C1_OneReleasePerId == \A r \in ReleaseIds : Cardinality(ReleasesOf(r)) <= 1

\* Two deliveries of one release id on two processes raced to the commit:
\* one row is committed, the other commit was refused.
C1_Witness ==
  \E i, j \in Inv :
    /\ proc[i] # proc[j]
    /\ event[i].release.id = event[j].release.id
    /\ Committed(i)
    /\ outcome[j] = "commit_conflict"

\* C2: async mode, all deliveries of release id r are creation events, each
\* of them that resolved the repository found it enabled, and all have
\* returned: exactly one of them committed a row and every other one ended
\* with 409.
C2_OneWinnerOthers409 ==
  asyncMode =>
    \A r \in ReleaseIds :
      LET D == DeliveriesOf(r) IN
      ( /\ D # {}
        /\ \A i \in D : /\ Ended(i)
                         /\ CreationEvent(i)
                         /\ outcome[i] \notin {"repo_not_found", "repo_disabled"} )
      => \E w \in D :
           /\ Committed(w)
           /\ \A l \in D \ {w} : ~Committed(l) /\ pc[l] = "done" /\ Code(l) = 409

\* Two concurrent deliveries of one release id both passed the lookup; the
\* loser was refused at commit and ended with 409.
C2_Witness ==
  /\ asyncMode
  /\ \E w, l \in Inv :
       /\ w # l
       /\ event[w].release.id = event[l].release.id
       /\ Ended(w) /\ Ended(l)
       /\ Committed(w)
       /\ outcome[l] = "commit_conflict"
       /\ Code(l) = 409

\* C3: whenever no invocation for release id r is in flight on process p,
\* the dict `state` of p has no key r.
C3_LockReleased ==
  \A p \in Procs, r \in ReleaseIds :
    (\A i \in DeliveriesOf(r) : proc[i] = p => Ended(i)) => state[p][r] = 0

\* C4: for every release id, the Downstream Processor is dispatched at most
\* once, counting process_release.delay and the in-line process_release.
C4_AtMostOnce ==
  \A r \in ReleaseIds : Count(queue, r) + Count(processed, r) <= 1

\* C5: async mode: every release id in the task queue has a committed row,
\* and an invocation whose commit was refused has sent nothing.
C5_CommitBeforeEnqueue ==
  asyncMode =>
    /\ \A k \in 1..Len(queue) : ReleasesOf(queue[k]) # {}
    /\ \A i \in Inv : outcome[i] = "commit_conflict" => sent[i] = 0

\* One invocation has committed and enqueued, another one's commit was
\* refused.
C5_Witness ==
  /\ asyncMode
  /\ Len(queue) = 1
  /\ \E i, j \in Inv : sent[i] = 1 /\ Committed(i) /\ outcome[j] = "commit_conflict"

\* C6: an event is handled as a creation event iff its action is one of
\* "published", "released", "created" and its release is not a draft; run()
\* on any other event changes nothing: no row staged or committed, no key
\* added to `state`, nothing dispatched, the response slot as delivered.
C6_Discarded ==
  /\ [](\A i \in Delivered :
          /\ pc[i] # "run" => (outcome[i] = "discarded" <=> ~CreationEvent(i))
          /\ ~CreationEvent(i) =>
                /\ pc[i] \in {"run", "done"}
                /\ resp[i] = AsDelivered /\ writes[i] = 0
                /\ staged[i] = NoRelease /\ ~Committed(i) /\ sent[i] = 0
                /\ \A p \in Procs, r \in ReleaseIds : state[p][r] # i)
  /\ [][\A i \in Inv :
          (pc[i] = "run" /\ pc'[i] # "run" /\ ~CreationEvent(i)) =>
             UNCHANGED <<store, queue, processed, state, staged, resp>>]_vars

\* A "deleted" event and a draft were discarded while a row is committed
\* and a creation event is being admitted.
C6_Witness ==
  /\ store # {}
  /\ \E i \in Inv :
       /\ outcome[i] = "discarded"
       /\ pc[i] = "done"
       /\ event[i].action \in {"created", "released", "deleted"}
       /\ event[i].action = "deleted" \/ event[i].release.draft

\* C7: a creation event delivered when a row with its release id is already
\* committed ends with 409, commits no second row (the store holds exactly
\* one row for the id) and dispatches nothing.
C7_Redelivery ==
  \A i \in Delivered :
    (prior[i] /\ CreationEvent(i)) =>
      /\ Cardinality(ReleasesOf(event[i].release.id)) = 1
      /\ ~Committed(i)
      /\ staged[i] = NoRelease
      /\ sent[i] = 0
      /\ Ended(i) => pc[i] = "done" /\ Code(i) = 409

\* A retry arrived after the original was committed and was refused by the
\* lookup.
C7_Witness ==
  \E i \in Inv :
    /\ prior[i]
    /\ pc[i] = "done"
    /\ outcome[i] = "existing_release"
    /\ Code(i) = 409

\* C8: a creation event that passed the `state` test and the lookup and
\* found its repository registered but disabled ends with 409, not 403, and
\* has staged, committed and dispatched nothing.
C8_DisabledRepository ==
  /\ [][\A i \in Inv :
          (pc[i] = "repo" /\ pc'[i] # "repo"
             /\ registry[event[i].repository.id] = "disabled") =>
            /\ pc'[i] = "done"
            /\ outcome'[i] = "repo_disabled"
            /\ UNCHANGED <<store, staged, queue, processed>>]_vars
  /\ [](\A i \in Inv :
          outcome[i] = "repo_disabled" =>
            /\ pc[i] = "done"
            /\ resp[i] = Response(409, "RepositoryDisabledError")
            /\ staged[i] = NoRelease /\ ~Committed(i) /\ sent[i] = 0)

\* A first delivery of a release of a disabled repository was refused.
C8_Witness ==
  \E i \in Inv :
    /\ outcome[i] = "repo_disabled"
    /\ registry[event[i].repository.id] = "disabled"
    /\ ~prior[i]
    /\ Code(i) = 409

\* C9: a creation event that passed the `state` test and the lookup and
\* found no registered repository ends with 404 and has staged, committed
\* and dispatched nothing.
C9_UnknownRepository ==
  /\ [][\A i \in Inv :
          (pc[i] = "repo" /\ pc'[i] # "repo"
             /\ registry[event[i].repository.id] = "absent") =>
            /\ pc'[i] = "done"
            /\ outcome'[i] = "repo_not_found"
            /\ UNCHANGED <<store, staged, queue, processed>>]_vars
  /\ [](\A i \in Inv :
          outcome[i] = "repo_not_found" =>
            /\ pc[i] = "done"
            /\ resp[i] = Response(404, "RepositoryNotFoundError")
            /\ staged[i] = NoRelease /\ ~Committed(i) /\ sent[i] = 0)

\* A first delivery of a release of an unregistered repository was refused.
C9_Witness ==
  \E i \in Inv :
    /\ outcome[i] = "repo_not_found"
    /\ registry[event[i].repository.id] = "absent"
    /\ ~prior[i]
    /\ Code(i) = 404

\* C10: run() never lets an error out; an error that no except clause of
\* _handle_create_release names ends with 500 and the error's message when
\* the delivered response was unset or below 400, and leaves a delivered
\* response of 400 or above as it was.
Unclassified(err) ==
  err \notin {"", "ReleaseAlreadyReceivedError", "RepositoryDisabledError",
              "SQLAlchemyError", "RepositoryAccessError", "InvalidSenderError",
              "RepositoryNotFoundError"}

C10_Fallback500 ==
  \A i \in Inv :
    /\ pc[i] # "raised"
    /\ raised[i] # "" => pc[i] = "done"
    /\ Unclassified(raised[i]) =>
         IF resp0[i] = Unset \/ resp0[i].response_code < 400
         THEN resp[i] = Response(500, raised[i])
         ELSE resp[i] = resp0[i]

\* The broker refused the task after the commit, on an event delivered with
\* 202: the response became 500.
C10_Witness ==
  \E i \in Inv :
    /\ raised[i] = "OperationalError"
    /\ Committed(i)
    /\ resp0[i] = Response(202, "Accepted.")
    /\ resp[i] = Response(500, "OperationalError")

\* C11: async mode: an invocation that went through the whole admission
\* (repository enabled, no row and no key found, task accepted) leaves
\* exactly one committed row for its release id, carrying the id, the
\* payload's tag, the repository and status RECEIVED; the id is in the task
\* queue exactly once; the response slot is as delivered; its key is gone
\* from `state`.  A lone delivery to an enabled repository ends this way
\* unless the broker refuses the task.
C11_Admitted ==
  asyncMode =>
    \A i \in Delivered :
      LET r == event[i].release.id IN
      /\ outcome[i] = "admitted" =>
           /\ ReleasesOf(r) = {[release_id |-> r,
                                tag |-> event[i].release.tag_name,
                                repository |-> event[i].repository.id,
                                event |-> i,
                                status |-> "RECEIVED"]}
           /\ Count(queue, r) = 1
           /\ sent[i] = 1
           /\ resp[i] = AsDelivered /\ writes[i] = 0
           /\ state[proc[i]][r] # i
           /\ (\A j \in DeliveriesOf(r) \ {i} : proc[j] # proc[i]) => state[proc[i]][r] = 0
      /\ ( /\ DeliveriesOf(r) = {i}
           /\ CreationEvent(i)
           /\ Ended(i)
           /\ outcome[i] \notin {"repo_not_found", "repo_disabled", "delay_failed"} )
         => outcome[i] = "admitted"

\* The only delivery of a release id was admitted and its task is queued.
C11_Witness ==
  /\ asyncMode
  /\ \E i \in Inv :
       /\ outcome[i] = "admitted"
       /\ DeliveriesOf(event[i].release.id) = {i}
       /\ queue = <<event[i].release.id>>
       /\ event[i].release.tag_name = "v1.0"

\* C12: during one invocation the response slot is written at most once, an
\* invocation that ended with an error has written it exactly once, and a
\* response that is set has its code equal to the status in its body.
Coherent(i) == resp[i] # AsDelivered => resp[i].response_code = resp[i].status

InCritical(i) == pc[i] \in {"query", "repo", "dispatch", "delay", "unlock"}

C13_MutualExclusion ==
  \A i, j \in Inv :
    (i # j /\ proc[i] = proc[j] /\ event[i].release.id = event[j].release.id)
      => ~(InCritical(i) /\ InCritical(j))

\* C14: an invocation that finds its release id in `state` ends at once with
\* 409: no lookup, no repository, nothing staged, committed or dispatched,
\* and `state` is left as it was.
C14_FastPath ==
  /\ [][\A i \in Inv :
          (pc[i] = "check" /\ pc'[i] # "check"
             /\ state[proc[i]][event[i].release.id] # 0) =>
            /\ pc'[i] = "done"
            /\ resp'[i] = Response(409, "ReleaseAlreadyReceivedError")
            /\ UNCHANGED <<state, store, staged, queue, processed>>]_vars
  /\ [](\A i \in Inv :
          outcome[i] = "in_state" =>
            /\ pc[i] = "done"
            /\ Code(i) = 409
            /\ staged[i] = NoRelease /\ ~Committed(i) /\ sent[i] = 0
            /\ \A p \in Procs, r \in ReleaseIds : state[p][r] # i)

\* A delivery was refused at the `state` test while the holder of the key
\* is still in its admission and still holds the key.
C14_Witness ==
  \E i, j \in Inv :
    /\ i # j
    /\ outcome[i] = "in_state"
    /\ Code(i) = 409
    /\ InCritical(j)
    /\ state[proc[i]][event[i].release.id] = j

\* C15: a creation event delivered when a row with its release id is
\* committed is refused as already received (409) whatever the registry
\* says about its repository: it never ends as RepositoryNotFoundError
\* (404) or RepositoryDisabledError.
C15_DuplicateBeforeRepository ==
  \A i \in Delivered :
    (prior[i] /\ CreationEvent(i) /\ Ended(i)) =>
      /\ raised[i] = "ReleaseAlreadyReceivedError"
      /\ outcome[i] \in {"in_state", "existing_release"}
      /\ resp[i] = Response(409, "ReleaseAlreadyReceivedError")

\* A retry of a committed release was refused by the lookup while its
\* repository is not registered any more.
C15_Witness ==
  \E i \in Inv :
    /\ prior[i]
    /\ outcome[i] = "existing_release"
    /\ registry[event[i].repository.id] = "absent"
    /\ Code(i) = 409

\* C16: after an invocation for release id r on process p was refused with
\* RepositoryNotFoundError or RepositoryDisabledError and has returned, an
\* invocation for r on p that makes the `state` test while the repository is
\* enabled, no row for r is committed and no other invocation for r is in
\* flight on p passes the test (it is not refused with 409).
RefusedBefore(j) ==
  \E i \in Inv \ {j} :
    /\ proc[i] = proc[j]
    /\ event[i].release.id = event[j].release.id
    /\ pc[i] = "done"
    /\ outcome[i] \in {"repo_not_found", "repo_disabled"}

Quiet(j) ==
  /\ registry[event[j].repository.id] = "enabled"
  /\ ReleasesOf(event[j].release.id) = {}
  /\ \A k \in DeliveriesOf(event[j].release.id) \ {j} : proc[k] = proc[j] => Ended(k)

C16_RejectionDoesNotBlock ==
  [][\A j \in Inv :
       (pc[j] = "check" /\ pc'[j] # "check" /\ RefusedBefore(j) /\ Quiet(j))
         => pc'[j] = "lock" /\ resp'[j] = AsDelivered]_vars

\* C17: an invocation that ended with a response code of 400 or above has
\* committed no row; in async mode every committed row whose invocation has
\* ended has its release id in the task queue.
C17_ErrorMeansNothingAdmitted ==
  /\ \A i \in Inv : (Ended(i) /\ Code(i) >= 400) => ~Committed(i)
  /\ asyncMode =>
       \A rec \in store : Ended(rec.event) => Count(queue, rec.release_id) >= 1
====
